---- MODULE Spec2Model ----
(***************************************************************************)
(* A model of the cached Loader of dataloader-rs (src/src/cached.rs).      *)
(*                                                                         *)
(* The loader is shared by several concurrent callers.  Its State          *)
(* (completed, pending) sits behind one async mutex and the batch function *)
(* behind a second one.  Every caller is an async task; a step of the      *)
(* model is the code a task runs between two await points.                 *)
(***************************************************************************)
EXTENDS Naturals, Integers, Sequences, FiniteSets, TLC

(* ---------------------------------------------------------------- bounds *)

\* Number of concurrent callers sharing (clones of) the loader.
NumCallers == 3

\* Number of distinct keys the callers ask for.
NumKeys == 3

\* The loader is built with max_batch_size in 1 .. MaxBatchSize.
MaxBatchSize == 2

\* The loader is built with yield_count in 0 .. MaxYieldCount.
MaxYieldCount == 1

\* The keys 1 .. NumMissing may be absent from the batch function's map.
NumMissing == 1

\* Spec: the longest key list handed to load_many, and the number of calls
\* (load, load_many, prime, clear, clear_all) the callers make in all.
MaxManyLen == 1

MaxOps == 3

\* LoadSpec (load and load_many only): the same two bounds.
MaxManyLenLoads == 3

MaxOpsLoads == 2

\* The poll-count Loader: the number of handles load creates, and of the
\* distinct keys they are created for.
MaxHandles == 4

NumPollKeys == 2

\* The poll-count Loader is built over a batch function whose
\* max_batch_size() is in 1 .. MaxPollBatchSize.
MaxPollBatchSize == 2

\* The number of handles load creates when the tasks that await them are
\* modelled.
MaxUserHandles == 3

\* The eager cached Loader: the callers sharing it, the keys they ask for,
\* the largest max_batch_size it is built with, the keys 1 .. NumEagerMissing
\* that may be absent from the batch function's map, the longest key list
\* handed to load_many and the number of calls the callers make in all.
NumEagerCallers == 2

NumEagerKeys == 2

MaxEagerBatchSize == 2

NumEagerMissing == 1

MaxEagerManyLen == 2

MaxEagerOps == 3

\* The channel-worker Loader: the requests load creates, the distinct keys
\* they are for, the largest max_batch_size it is built with, and the
\* number of messages the channel holds at a time.
MaxWorkerLoads == 3

NumWorkerKeys == 2

MaxWorkerBatchSize == 2

MaxChan == 3

\* test_batch_call_seq: loads of the keys 1, 2, 3, 4, joined on one task, on
\* a loader whose max_batch_size is 2.
JoinedLoads == 4

JoinedBatchSize == 2

\* test_load: Loader::new(load_fn).with_max_batch_size(4).
WideBatchSize == 4

Max(a, b) == IF a >= b THEN a ELSE b

\* The callers (tasks holding a clone of the loader) and the keys there
\* are; Acting and Asked are the callers that make calls and the keys they
\* ask for when callers run independently of each other.
Callers == 1 .. Max(NumCallers, JoinedLoads)

Keys == 1 .. Max(NumKeys, JoinedLoads)

Acting == 1 .. NumCallers

Asked == 1 .. NumKeys

\* The values prime() is called with (test_prime uses 101 and 201).
PrimeVals == {101, 201}

VARIABLES
    loader,      \* the Loader's fields max_batch_size and yield_count
    state,       \* State { completed, pending }, guarded by Loader::state
    stateLock,   \* the callers holding the guard of Loader::state ({} or {c})
    loadFnLock,  \* the callers holding the guard of Loader::load_fn
    fut,         \* per caller: the state of its async fn (locals, position)
    last,        \* the call that returned most recently, and what it returned
    missing,     \* the keys the batch function's map has no entry for
    hist,        \* history: batch function invocations and what was called
    nc,          \* the poll-count Loader of src/src/non_cached.rs
    ex,          \* the handles of the poll-count Loader and their tasks
    eg,          \* the eager cached Loader of src/src/eager/cached.rs
    cw           \* the channel-worker Loader of src/src/lib.rs

vars ==
    <<loader, state, stateLock, loadFnLock, fut, last, missing, hist, nc, ex,
      eg, cw>>

(* --------------------------------------------------------------- values *)

\* Option::None of Cache::get, and "no result yet".
None == [kind |-> "none", seq |-> 0, val |-> 0]

\* The unwrap_or_else(|| panic!(..)) of a lookup that finds nothing.
Panic == [kind |-> "panic", seq |-> 0, val |-> 0]

\* The value the batch function produces for key k in its n-th invocation
\* (the test Batcher: (invocation sequence number, key * 10)).
Loaded(n, k) == [kind |-> "ok", seq |-> n, val |-> k * 10]

\* A value given to prime(); it comes from no invocation (sequence 0).
Primed(v) == [kind |-> "ok", seq |-> 0, val |-> v]

\* The map the n-th invocation returns when it answers the keys `returned`.
BatchFn(n, returned) ==
    [k \in Keys |-> IF k \in returned THEN Loaded(n, k) ELSE None]

(* ---------------------------------------------------------------- Cache *)

CacheGet(completed, key) == completed[key]

CacheInsert(completed, key, val) == [completed EXCEPT ![key] = val]

\* A faulty remove: the entry stays.
CacheRemoveKeeps(completed, key) == completed

CacheRemove(completed, key) == [completed EXCEPT ![key] = None]

CacheClear(completed) == [k \in Keys |-> None]

\* A faulty lookup: the cache is never hit.
CachedNever(completed, key) == FALSE

\* if let Some(v) = state.completed.get(&key)
Cached(completed, key) == CacheGet(completed, key) # None

\* The results of the batch function are dropped instead of stored.
InsertAllDropped(completed, load_ret) == completed

\* for (k, v) in load_ret.into_iter() { state.completed.insert(k, v); }
InsertAll(completed, load_ret) ==
    [k \in Keys |-> IF load_ret[k] # None THEN load_ret[k] ELSE completed[k]]

(* ------------------------------------------------------ the code's tests *)

\* A faulty threshold: dispatch only once pending exceeds max_batch_size.
PendingFullOffByOne(pending) == Cardinality(pending) > loader.max_batch_size

\* state.pending.len() >= self.max_batch_size
PendingFull(pending) == Cardinality(pending) >= loader.max_batch_size

\* A faulty flush: flush after the yields only when pending is full.
NeedsFlushWhenFull(pending) == PendingFull(pending)

\* !state.pending.is_empty()
NeedsFlush(pending) == pending # {}

\* A faulty drain: the keys are copied and pending keeps them.
DrainedKeeps(pending) == pending

\* state.pending.drain(): what is left in pending after the drain.
Drained(pending) == {}

\* while i < self.yield_count
YieldAgain(i) == i < loader.yield_count

\* The error value of the fallible lookup: the key was not in the batch
\* function's result.
NotFound == [kind |-> "not_found", seq |-> 0, val |-> 0]

\* A fallible lookup that panics all the same.
GetOrErrPanics(completed, key) ==
    IF CacheGet(completed, key) # None THEN CacheGet(completed, key) ELSE Panic

\* The lookup of the fallible load: the entry, or the error value.
GetOrErr(completed, key) ==
    IF CacheGet(completed, key) # None THEN CacheGet(completed, key) ELSE NotFound

\* A lookup that hands out the absent entry instead of panicking.
GetOrPanicQuiet(completed, key) == CacheGet(completed, key)

\* completed.get(&key).cloned().unwrap_or_else(|| panic!(..))
GetOrPanic(completed, key) ==
    IF CacheGet(completed, key) # None THEN CacheGet(completed, key) ELSE Panic

(* ------------------------------------------------------- caller's state *)

NoRet == [k \in Keys |-> None]

\* A caller that is not inside any call.
Idle ==
    [pc |-> "idle", op |-> "none", key |-> 0, req |-> <<>>, keys |-> <<>>,
     rest |-> <<>>, ret |-> NoRet, i |-> 0, batch |-> {}, site |-> "none",
     afterEvict |-> -1]

\* No call has returned yet.
NoCall ==
    [op |-> "none", key |-> 0, req |-> <<>>, result |-> None, ret |-> NoRet,
     via |-> "none", afterEvict |-> -1, yields |-> 0]

Quiescent == \A c \in Callers : fut[c].pc = "idle"

\* The key lists of at most n keys load_many is called with.
ManyArgs(n) ==
    UNION {[1 .. m -> Asked] : m \in 1 .. n}

(* ------------------------------- the poll-count Loader (non_cached.rs) *)

\* LoadError::UnequalKeyValueSize { key_count, value_count }, as a result:
\* seq holds key_count and val holds value_count.
Unequal(key_count, value_count) ==
    [kind |-> "unequal", seq |-> key_count, val |-> value_count]

\* LoadError::BatchFn(err), as a result.
BatchFnErr == [kind |-> "batch_fn", seq |-> 0, val |-> 0]

\* A queue slot whose item was taken: None.  `by` is history: the number
\* of the invocation at whose completion the item's result was stored.
Taken ==
    [some |-> FALSE, key |-> 0, waker |-> FALSE, res |-> None, by |-> 0]

\* queue.push(Some((key, None, None)))
Item(key) ==
    [some |-> TRUE, key |-> key, waker |-> FALSE, res |-> None, by |-> 0]

NoLoad == [set |-> FALSE, n |-> 0, keys |-> <<>>]

NoHandle == [index |-> 0, key |-> 0, res |-> None, by |-> 0]

\* Loader::new: an empty queue, no current load, visited_count 0.  `visited`
\* is the visited flag of the handle of each queue index; `polled` (which
\* handles have been polled), `calls` (the key lists the batch function was
\* invoked with), `members` (the queue indexes those keys were taken from),
\* `outs` (how each invocation that completed ended), `asked` (the key of
\* each handle), `born` (the number of invocations that had completed when
\* the handle was created) and `last` (the handle that resolved most
\* recently) are history.
NewPollLoader ==
    [queue |-> <<>>, visited_count |-> 0, current_load |-> NoLoad,
     visited |-> <<>>, polled |-> <<>>, calls |-> <<>>, members |-> <<>>,
     outs |-> <<>>, asked |-> <<>>, born |-> <<>>, last |-> NoHandle]

\* The indexes n, in order, with queue[n].is_some(), from index n on.
RECURSIVE Indexes(_, _)
Indexes(queue, n) ==
    IF n > Len(queue) THEN <<>>
    ELSE (IF queue[n].some THEN <<n>> ELSE <<>>) \o Indexes(queue, n + 1)

\* A dispatch test that lets the last handle dispatch on its first poll.
AllVisitedButOne(visited_count, queue) == visited_count + 1 >= Len(queue)

\* *visited_count == queue.len()
AllVisited(visited_count, queue) == visited_count = Len(queue)

\* The batch function of the tests (Batcher): the values of the keys, in the
\* order of the keys; n is the number of the invocation.
Values(n, keys) == [i \in 1 .. Len(keys) |-> Loaded(n, keys[i])]

\* How an invocation of the batch function can end: Ok with a value for
\* every key (Batcher), Ok with fewer values than keys (BadBatcher over ()),
\* or Err (BadBatcher over i32).
Outcomes == {"ok", "short", "err"}

\* The values an invocation that ends in Ok returns.
Returns(out, n, keys) ==
    IF out = "short" THEN SubSeq(Values(n, keys), 1, Len(keys) - 1)
    ELSE Values(n, keys)

\* for (index, val) in indexes.into_iter().zip(vals.into_iter())
\*     { queue[index].2 = Some(Ok(val)) }
Zipped(queue, indexes, vals, n) ==
    [m \in 1 .. Len(queue) |->
        IF \E i \in 1 .. Len(indexes) : indexes[i] = m /\ i <= Len(vals)
        THEN [queue[m] EXCEPT
                !.res = vals[CHOOSE i \in 1 .. Len(indexes) : indexes[i] = m],
                !.by = n]
        ELSE queue[m]]

\* for index in indexes { queue[index].2 = Some(Err(err)) }
Failed(queue, indexes, err, n) ==
    [m \in 1 .. Len(queue) |->
        IF \E i \in 1 .. Len(indexes) : indexes[i] = m
        THEN [queue[m] EXCEPT !.res = err, !.by = n]
        ELSE queue[m]]

\* The match on the invocation's result: the queue after the results are
\* stored for `indexes`, the indexes computed by the poll that stores them;
\* n is the number of the invocation.
Stored(queue, indexes, out, vals, n) ==
    IF out = "err" THEN Failed(queue, indexes, BatchFnErr, n)
    ELSE IF Len(indexes) # Len(vals)
    THEN Failed(queue, indexes, Unequal(Len(indexes), Len(vals)), n)
    ELSE Zipped(queue, indexes, vals, n)

\* let item = queue[self.index].take().unwrap(); Poll::Ready(item.2.unwrap())
Resolved(p, queue, h) ==
    [p EXCEPT !.queue = [queue EXCEPT ![h] = Taken],
              !.last = [index |-> h, key |-> queue[h].key,
                        res |-> queue[h].res, by |-> queue[h].by]]

\* for each item of the queue: if let Some(waker) = waker.take() { wake }
Woken(queue) ==
    [m \in 1 .. Len(queue) |-> [queue[m] EXCEPT !.waker = FALSE]]

\* The variables of the cached Loaders, which the poll-count Loader leaves
\* alone.
cachedVars ==
    <<loader, state, stateLock, loadFnLock, fut, last, missing, hist, eg, cw>>

\* Loader::load (non_cached.rs): push the key, hand out a handle on its
\* index.
Pushed(p, key) ==
    [p EXCEPT !.queue = Append(@, Item(key)),
              !.visited = Append(@, FALSE),
              !.polled = Append(@, FALSE),
              !.asked = Append(@, key),
              !.born = Append(@, Len(p.outs))]

PollLoad(key) ==
    /\ Len(nc.queue) < MaxHandles
    /\ nc' = Pushed(nc, key)
    /\ UNCHANGED <<cachedVars, ex>>

\* The handle on index h has a result stored: its poll returns it.
HasResult(p, h) == p.queue[h].res # None

\* The poll of the handle on index h reaches the batch function's future.
Dispatches(p, h) ==
    ~HasResult(p, h) /\ AllVisited(p.visited_count, p.queue)

\* visited_count after the poll of h has counted the handle.
Counted(p, h) ==
    IF p.visited[h] THEN p.visited_count ELSE p.visited_count + 1

\* LoadFuture2::poll of the handle on index h, as a function of the loader's
\* state p; `ready` is whether the batch function's future is ready when
\* polled and `out` how it ends.
Polled(p, h, ready, out) ==
    LET q == [p EXCEPT !.polled[h] = TRUE]
        indexes == Indexes(p.queue, 1)
        keys == [i \in 1 .. Len(indexes) |-> p.queue[indexes[i]].key]
        fresh == ~p.current_load.set
        load == IF fresh
                THEN [set |-> TRUE, n |-> Len(p.calls) + 1, keys |-> keys]
                ELSE p.current_load
        called == IF fresh
                  THEN [q EXCEPT !.calls = Append(@, keys),
                                 !.members = Append(@, indexes)]
                  ELSE q
        vals == Returns(out, load.n, load.keys)
        waiting == [p.queue EXCEPT ![h].waker = TRUE]
    IN  IF HasResult(p, h)
        THEN Resolved(q, p.queue, h)
        ELSE IF Dispatches(p, h)
        THEN IF ~ready
             THEN [called EXCEPT !.current_load = load]
             ELSE Resolved([called EXCEPT !.current_load = NoLoad,
                                          !.outs = Append(@, out)],
                           Stored(p.queue, indexes, out, vals, load.n), h)
        ELSE [q EXCEPT !.visited_count = Counted(p, h),
                       !.visited[h] = TRUE,
                       !.queue = IF AllVisited(Counted(p, h), p.queue)
                                 THEN Woken(waiting) ELSE waiting]

\* A poll of a handle that has not resolved yet, over the Batcher (every
\* invocation ends in Ok with a value for every key).
Poll(h, ready) ==
    /\ h \in 1 .. Len(nc.queue)
    /\ nc.queue[h].some
    /\ nc' = Polled(nc, h, ready, "ok")
    /\ UNCHANGED <<cachedVars, ex>>

\* A poll of a handle that has not resolved yet, over any batch function.
PollOut(h, ready, out) ==
    /\ h \in 1 .. Len(nc.queue)
    /\ nc.queue[h].some
    /\ nc' = Polled(nc, h, ready, out)
    /\ UNCHANGED <<cachedVars, ex>>

(* ------------------------- the handles of the poll-count Loader's users *)

\* The state of the users of a poll-count Loader built over a batch function
\* whose max_batch_size() is m: `loaders` is the number of Loader values the
\* caller holds; `held` says of each handle whether its owner has not begun
\* to await it ("new"), awaits it on a task of its own ("awaited") or has
\* dropped it ("dropped"); `runnable` whether that task is scheduled to be
\* polled; `waker` is the handle whose task's waker the batch function's
\* future holds and `done` whether that future has completed; `cursor` is
\* the position of a task that polls all handles in turn (0: not polling).
NewUsers(m) ==
    [max_batch_size |-> m, loaders |-> 1, held |-> <<>>, runnable |-> <<>>,
     waker |-> 0, done |-> FALSE, cursor |-> 0]

\* A shared state that lives only as long as a Loader value does.
AliveWhileLoader(loaders, held) == loaders > 0

\* The queue, the batch function, current_load and visited_count are Arcs,
\* cloned into every handle (loader: self.clone()): they live as long as a
\* Loader value or a handle does.
Alive(loaders, held) ==
    loaders > 0 \/ \E h \in 1 .. Len(held) : held[h] # "dropped"

Handles == 1 .. Len(nc.queue)

\* loader.load(key), called on a Loader value the caller holds.
UserLoad(key) ==
    /\ ex.loaders > 0
    /\ Len(nc.queue) < MaxUserHandles
    /\ nc' = Pushed(nc, key)
    /\ ex' = [ex EXCEPT !.held = Append(@, "new"),
                        !.runnable = Append(@, FALSE)]
    /\ UNCHANGED cachedVars

\* The owner of handle h begins to await it: a task is scheduled for its
\* first poll.
Await(h) ==
    /\ h \in Handles
    /\ ex.held[h] = "new"
    /\ ex' = [ex EXCEPT !.held[h] = "awaited", !.runnable[h] = TRUE]
    /\ UNCHANGED <<cachedVars, nc>>

\* The owner drops handle h before it has resolved.  LoadFuture2 has no
\* Drop implementation: the loader's state is not touched.
DropHandle(h) ==
    /\ h \in Handles
    /\ ex.held[h] \in {"new", "awaited"}
    /\ nc.queue[h].some
    /\ ex' = [ex EXCEPT !.held[h] = "dropped", !.runnable[h] = FALSE]
    /\ UNCHANGED <<cachedVars, nc>>

\* drop(loader)
DropLoader ==
    /\ ex.loaders > 0
    /\ ex' = [ex EXCEPT !.loaders = 0]
    /\ UNCHANGED <<cachedVars, nc>>

\* The handles whose stored waker the poll of h wakes: all of them, once
\* the last handle has been counted.
Woke(p, h) ==
    IF /\ ~HasResult(p, h)
       /\ ~Dispatches(p, h)
       /\ AllVisited(Counted(p, h), p.queue)
    THEN {m \in 1 .. Len(p.queue) :
            p.queue[m].some /\ (p.queue[m].waker \/ m = h)}
    ELSE {}

\* Whether the batch function's future is ready when the poll of h reaches
\* it: a future created by this poll may or may not be ready at once.
Readiness(h) ==
    IF ~Dispatches(nc, h) THEN {FALSE}
    ELSE IF nc.current_load.set THEN {ex.done}
    ELSE BOOLEAN

\* The tasks after the poll of h: h's task sleeps unless its waker was
\* woken, the tasks of the woken wakers are scheduled, and a future that is
\* not ready keeps the waker of the task that polled it last.
Scheduled(e, p, h, ready) ==
    [e EXCEPT
        !.runnable = [m \in 1 .. Len(p.queue) |->
                        IF m \in Woke(p, h) THEN e.held[m] = "awaited"
                        ELSE IF m = h THEN FALSE
                        ELSE e.runnable[m]],
        !.waker = IF Dispatches(p, h) THEN (IF ready THEN 0 ELSE h) ELSE @,
        !.done = IF Dispatches(p, h) /\ ready THEN FALSE ELSE @]

\* The task that awaits handle h polls it.
TaskPoll(h) ==
    /\ h \in Handles
    /\ ex.held[h] = "awaited"
    /\ ex.runnable[h]
    /\ nc.queue[h].some
    /\ Alive(ex.loaders, ex.held)
    /\ \E ready \in Readiness(h) :
        /\ nc' = Polled(nc, h, ready, "ok")
        /\ ex' = Scheduled(ex, nc, h, ready)
    /\ UNCHANGED cachedVars

\* The batch function's future completes and wakes the waker it holds.
Complete ==
    /\ nc.current_load.set
    /\ ~ex.done
    /\ ex' = [ex EXCEPT
                !.done = TRUE,
                !.runnable = [m \in 1 .. Len(nc.queue) |->
                                IF m = ex.waker THEN ex.held[m] = "awaited"
                                ELSE ex.runnable[m]]]
    /\ UNCHANGED <<cachedVars, nc>>

\* future::try_join over the handles created so far (drop_loader): one task
\* awaits them all, and every waker is that task's waker.
JoinStart ==
    /\ Len(nc.queue) > 0
    /\ \A h \in Handles : ex.held[h] = "new"
    /\ ex' = [ex EXCEPT
                !.held = [h \in Handles |-> "awaited"],
                !.runnable = [h \in Handles |-> h = 1]]
    /\ UNCHANGED <<cachedVars, nc>>

\* A load before the handles are joined.
JoinLoad(key) ==
    /\ \A h \in Handles : ex.held[h] = "new"
    /\ UserLoad(key)

\* The joining task, woken, is polled: it begins with its first handle.
JoinWake ==
    /\ ex.cursor = 0
    /\ \E h \in Handles : ex.held[h] = "awaited" /\ ex.runnable[h]
    /\ ex' = [ex EXCEPT !.cursor = 1,
                        !.runnable = [h \in Handles |-> FALSE]]
    /\ UNCHANGED <<cachedVars, nc>>

\* The joining task polls the handle it has come to, if that has not
\* resolved, and goes on to the next; after the last it returns Pending or,
\* with every handle resolved, Ready.
JoinPoll ==
    /\ ex.cursor \in Handles
    /\ Alive(ex.loaders, ex.held)
    /\ LET h == ex.cursor
           next == IF h = Len(nc.queue) THEN 0 ELSE h + 1
       IN  IF nc.queue[h].some
           THEN \E ready \in Readiness(h) :
                  /\ nc' = Polled(nc, h, ready, "ok")
                  /\ ex' = [Scheduled(ex, nc, h, ready) EXCEPT
                              !.runnable[h] = h \in Woke(nc, h),
                              !.cursor = next]
           ELSE /\ ex' = [ex EXCEPT !.cursor = next]
                /\ nc' = nc
    /\ UNCHANGED cachedVars

(* ------------------------- the eager cached Loader (eager/cached.rs) *)

EagerCallers == 1 .. NumEagerCallers

EagerKeys == 1 .. NumEagerKeys

\* A caller that is not inside a call.  Inside one: `pc` is the await point
\* it has reached, `keys` the keys load_many has yet to go through, `batch`
\* the keys it drained, `n` the number of its invocation of the batch
\* function, `site` which of the drains it made, `rest` and `ret` the locals
\* of load_many.
EagerIdle ==
    [pc |-> "idle", op |-> "none", key |-> 0, keys |-> <<>>, req |-> <<>>,
     batch |-> {}, n |-> 0, site |-> "none", rest |-> {},
     ret |-> [k \in EagerKeys |-> None]]

NoEagerCall ==
    [op |-> "none", key |-> 0, req |-> <<>>, result |-> None,
     ret |-> [k \in EagerKeys |-> None]]

\* Loader::new over a batch function whose max_batch_size() is m and whose
\* map lacks the keys `lacks`: three mutexes, around completed, pending and
\* load_fn, each held by the callers in its lock set ({} or {c}).  `missing`
\* is the batch function's; `calls` (the key sets it was invoked with),
\* `last` (the call that returned most recently) and `left` (the calls the
\* callers may still make) are history.
NewEager(m, lacks, ops) ==
    [max_batch_size |-> m,
     completed |-> [k \in EagerKeys |-> None],
     pending |-> {},
     completedLock |-> {}, pendingLock |-> {}, loadFnLock |-> {},
     fut |-> [c \in EagerCallers |-> EagerIdle],
     missing |-> lacks, calls |-> <<>>, last |-> NoEagerCall, left |-> ops]

\* The variables of the other two loaders.
otherVars ==
    <<loader, state, stateLock, loadFnLock, fut, last, missing, hist, nc, ex,
      cw>>

\* The key a call is dealing with: load's key, or the key load_many's loop
\* has come to.
Cur(f) == IF f.op = "load" THEN f.key ELSE Head(f.keys)

\* completed.get(&key).cloned().expect("found result in completed")
Expect(completed, key) ==
    IF completed[key] = None THEN Panic ELSE completed[key]

\* for (k, v) in load_ret.into_iter() { completed.insert(k, v); }, the
\* n-th invocation having been given the keys `batch`.
EagerInserted(e, n, batch) ==
    [k \in EagerKeys |->
        IF k \in batch \ e.missing THEN Loaded(n, k) ELSE e.completed[k]]

\* pending.len() >= self.max_batch_size
EagerFull(pending, max_batch_size) ==
    Cardinality(pending) >= max_batch_size

\* The guards a call holds are dropped when it returns, when load_many's
\* loop continues, and when a panic unwinds.
Released(e, c) ==
    [e EXCEPT !.pendingLock = @ \ {c},
              !.completedLock = @ \ {c},
              !.loadFnLock = @ \ {c}]

\* The call of caller c returns (or panics with) `result`; load_many
\* returns the map `ret`.
EagerReturned(e, c, result, ret) ==
    [Released(e, c) EXCEPT
        !.fut[c] = EagerIdle,
        !.last = [op |-> e.fut[c].op, key |-> e.fut[c].key,
                  req |-> e.fut[c].req, result |-> result, ret |-> ret]]

\* load_many's loop goes on to its next key, or leaves the loop for the
\* yield.
Advanced(f) ==
    [f EXCEPT !.keys = Tail(f.keys),
              !.pc = IF Tail(f.keys) = <<>> THEN "yield" ELSE "check",
              !.batch = {}, !.n = 0, !.site = "none"]

\* A load_many that returns without looking up the keys it left in rest.
CollectedNothing(ret, rest, completed) == ret

\* for key in rest.into_iter() { if let Some(v) = completed.get(&key)
\*     { ret.insert(key, (*v).clone()); } }
Collected(ret, rest, completed) ==
    [k \in EagerKeys |-> IF k \in rest THEN completed[k] ELSE ret[k]]

\* A caller that keeps the guard of completed it took for its first
\* lookup.
DroppedLate(lock, c) == lock \cup {c}

\* drop(completed), lines 58 and 114.
Dropped(lock, c) == lock \ {c}

\* load(key), lines 54-58: lock completed, return a cached result, unlock.
EagerLoad(c, key) ==
    /\ eg.fut[c].pc = "idle"
    /\ eg.left > 0
    /\ eg.completedLock = {}
    /\ LET f == [EagerIdle EXCEPT !.op = "load", !.key = key]
           e == [eg EXCEPT !.left = @ - 1, !.fut[c] = f]
       IN  eg' = IF eg.completed[key] # None
                 THEN EagerReturned(e, c, eg.completed[key], f.ret)
                 ELSE [e EXCEPT !.completedLock = Dropped(@, c),
                                !.fut[c].pc = "lock_pending"]
    /\ UNCHANGED otherVars

\* load_many(keys), lines 106-108: the loop begins.
EagerLoadMany(c, keys) ==
    /\ eg.fut[c].pc = "idle"
    /\ eg.left > 0
    /\ eg' = [eg EXCEPT
                !.left = @ - 1,
                !.fut[c] = [EagerIdle EXCEPT !.op = "load_many",
                                             !.keys = keys, !.req = keys,
                                             !.pc = "check"]]
    /\ UNCHANGED otherVars

\* load_many, lines 109-114: lock completed, take a cached result and
\* continue, unlock.
EagerCheck(c) ==
    /\ eg.fut[c].pc = "check"
    /\ eg.completedLock = {}
    /\ LET f == eg.fut[c]
           key == Cur(f)
       IN  eg' = IF eg.completed[key] # None
                 THEN [eg EXCEPT !.fut[c] =
                         Advanced([f EXCEPT !.ret[key] = eg.completed[key]])]
                 ELSE [eg EXCEPT !.completedLock = Dropped(@, c),
                                 !.fut[c].pc = "lock_pending"]
    /\ UNCHANGED otherVars

\* Lines 60 and 116: self.pending.lock().await
EagerLockPending(c) ==
    /\ eg.fut[c].pc = "lock_pending"
    /\ eg.pendingLock = {}
    /\ eg' = [eg EXCEPT !.pendingLock = {c}, !.fut[c].pc = "admit"]
    /\ UNCHANGED otherVars

\* Lines 61-82 and 117-144, with pending held: lock completed, return (or
\* take) a cached result, unlock; insert the key into pending unless it is
\* there; drain a full pending, else unlock pending and go to the yield (or
\* to the next key, the key being put into rest).
EagerAdmit(c) ==
    /\ eg.fut[c].pc = "admit"
    /\ eg.completedLock = {}
    /\ LET f == eg.fut[c]
           key == Cur(f)
           v == eg.completed[key]
           inserted == eg.pending \cup {key}
       IN  eg' =
             IF v # None
             THEN IF f.op = "load"
                  THEN EagerReturned(eg, c, v, f.ret)
                  ELSE [Released(eg, c) EXCEPT
                          !.fut[c] = Advanced([f EXCEPT !.ret[key] = v])]
             ELSE IF key \notin eg.pending
                     /\ EagerFull(inserted, eg.max_batch_size)
             THEN [eg EXCEPT !.pending = {},
                             !.fut[c] = [f EXCEPT !.batch = inserted,
                                                  !.site = "full",
                                                  !.pc = "lock_fn"]]
             ELSE IF f.op = "load"
                  THEN [Released(eg, c) EXCEPT !.pending = inserted,
                                               !.fut[c].pc = "yield"]
                  ELSE [Released(eg, c) EXCEPT
                          !.pending = inserted,
                          !.fut[c] = Advanced([f EXCEPT !.rest = @ \cup {key}])]
    /\ UNCHANGED otherVars

\* Lines 70-71, 93-94, 128-129, 152-153: lock load_fn and invoke the batch
\* function with the drained keys.
EagerLockFn(c) ==
    /\ eg.fut[c].pc = "lock_fn"
    /\ eg.loadFnLock = {}
    /\ eg' = [eg EXCEPT !.loadFnLock = {c},
                        !.calls = Append(@, eg.fut[c].batch),
                        !.fut[c].n = Len(eg.calls) + 1,
                        !.fut[c].pc = "await_batch"]
    /\ UNCHANGED otherVars

\* The batch function's future completes.  The last drain of load_many
\* holds completed already (line 149): it inserts the results, collects the
\* keys of rest and returns (154-163); the other drains go on to lock
\* completed.
EagerBatchReturn(c) ==
    /\ eg.fut[c].pc = "await_batch"
    /\ LET f == eg.fut[c]
           completed == EagerInserted(eg, f.n, f.batch)
       IN  eg' =
             IF f.site = "many_flush"
             THEN EagerReturned([eg EXCEPT !.completed = completed], c, None,
                                Collected(f.ret, f.rest, completed))
             ELSE [eg EXCEPT !.fut[c].pc = "insert"]
    /\ UNCHANGED otherVars

\* Lines 72-79, 95-102, 130-139: lock completed, insert the results, and
\* return the result of the key (load) or put it into ret and continue
\* (load_many); expect() panics when the key has no result.
EagerInsert(c) ==
    /\ eg.fut[c].pc = "insert"
    /\ eg.completedLock = {}
    /\ LET f == eg.fut[c]
           key == Cur(f)
           completed == EagerInserted(eg, f.n, f.batch)
           v == Expect(completed, key)
           e == [eg EXCEPT !.completed = completed]
       IN  eg' =
             IF f.op = "load" \/ v = Panic
             THEN EagerReturned(e, c, v, f.ret)
             ELSE [Released(e, c) EXCEPT
                     !.fut[c] = Advanced([f EXCEPT !.ret[key] = v])]
    /\ UNCHANGED otherVars

\* Lines 83 and 147: task::yield_now().await
EagerYield(c) ==
    /\ eg.fut[c].pc = "yield"
    /\ eg' = [eg EXCEPT !.fut[c].pc = "relock_pending"]
    /\ UNCHANGED otherVars

\* Lines 85 and 148: self.pending.lock().await
EagerRelockPending(c) ==
    /\ eg.fut[c].pc = "relock_pending"
    /\ eg.pendingLock = {}
    /\ eg' = [eg EXCEPT !.pendingLock = {c}, !.fut[c].pc = "flush"]
    /\ UNCHANGED otherVars

\* Lines 86-91 (load): lock completed, return a cached result, unlock,
\* drain pending.  Lines 149-151, 158-163 (load_many): lock completed and
\* keep it, drain pending; with nothing drained, collect the keys of rest
\* and return.
EagerFlush(c) ==
    /\ eg.fut[c].pc = "flush"
    /\ eg.completedLock = {}
    /\ LET f == eg.fut[c]
           drained == [eg EXCEPT !.pending = {},
                                 !.fut[c].batch = eg.pending,
                                 !.fut[c].pc = "lock_fn"]
       IN  eg' =
             IF f.op = "load"
             THEN IF eg.completed[f.key] # None
                  THEN EagerReturned(eg, c, eg.completed[f.key], f.ret)
                  ELSE [drained EXCEPT !.fut[c].site = "flush"]
             ELSE IF eg.pending # {}
                  THEN [drained EXCEPT !.completedLock = {c},
                                       !.fut[c].site = "many_flush"]
                  ELSE EagerReturned(eg, c, None,
                                     Collected(f.ret, f.rest, eg.completed))
    /\ UNCHANGED otherVars

\* A caller inside a call runs to its next await point.
EagerStep(c) ==
    \/ EagerCheck(c)
    \/ EagerLockPending(c)
    \/ EagerAdmit(c)
    \/ EagerLockFn(c)
    \/ EagerBatchReturn(c)
    \/ EagerInsert(c)
    \/ EagerYield(c)
    \/ EagerRelockPending(c)
    \/ EagerFlush(c)

\* The key lists of at most n keys load_many is called with.
EagerManyArgs(n) ==
    UNION {[1 .. m -> EagerKeys] : m \in 1 .. n}

(* --------------------------- the channel-worker Loader (src/src/lib.rs) *)

WorkerKeys == 1 .. NumWorkerKeys

\* LoadError::LoadCanceled: the Sender of a reply was dropped unused.
LoadCanceled == [kind |-> "canceled", seq |-> 0, val |-> 0]

\* LoadError::Custom, which the batch function's error is turned into.
Custom == [kind |-> "custom", seq |-> 0, val |-> 0]

\* Message::LoadOne { key, reply } of request r, Message::LoadRest, and the
\* end of the channel, which the drop of the last Sender queues behind the
\* messages sent before it.
LoadOne(r) == [kind |-> "LoadOne", req |-> r]

LoadRest == [kind |-> "LoadRest", req |-> 0]

Hangup == [kind |-> "Hangup", req |-> 0]

\* Loader::new over a batch function whose max_batch_size() is m: the
\* channel (`chan`, with `task`: the worker's task is registered with the
\* Receiver, and `unparked`: a send has signalled since the worker last
\* parked), the worker thread (`worker`: running, asleep, ended, failed or
\* exited) and its stream Inner { items, err } (`rx_done`: the Receiver has
\* taken the end of the channel).  A request r is a key (`keys`), a oneshot
\* reply (`reply`) and the LoadFuture handed to the caller (`future`, and
\* `got`, what it resolved to).  `received` (the requests the worker took
\* from the channel), `batches` (the batches the stream emitted) and `jobs`
\* (what became of the batch job of each) are history.
NewWorker(m) ==
    [max_batch_size |-> m,
     chan |-> <<>>, task |-> FALSE, unparked |-> FALSE, loader |-> TRUE,
     worker |-> "running", rx_done |-> FALSE, items |-> <<>>, err |-> FALSE,
     keys |-> <<>>, reply |-> <<>>, future |-> <<>>, got |-> <<>>,
     received |-> <<>>, batches |-> <<>>, jobs |-> <<>>]

\* The variables of the other loaders.
restVars ==
    <<loader, state, stateLock, loadFnLock, fut, last, missing, hist, nc, ex,
      eg>>

Requests == 1 .. Len(cw.keys)

\* UnboundedSender::send signals the Receiver: the first send since the
\* worker last parked notifies the task registered there, the later ones
\* find the channel signalled already.
Signalled(w) ==
    IF w.unparked
    THEN w
    ELSE [w EXCEPT !.unparked = TRUE, !.task = FALSE,
                   !.worker = IF w.task THEN "running" ELSE @]

\* self.tx.send(msg).unwrap()
Sent(w, msg) == Signalled([w EXCEPT !.chan = Append(@, msg)])

\* The Loader and every LoadFuture hold a Sender (line 53); with the last
\* of them dropped the channel ends.
Hung(w) ==
    IF ~w.loader /\ w.worker # "exited"
       /\ \A r \in 1 .. Len(w.future) : w.future[r] = "dropped"
    THEN Sent(w, Hangup)
    ELSE w

\* The Receiver finds no message: it reports a signal it had not seen yet
\* by looking again, else registers the worker's task and returns NotReady.
TryPark(w) ==
    IF w.unparked
    THEN [w EXCEPT !.unparked = FALSE]
    ELSE [w EXCEPT !.task = TRUE, !.worker = "asleep"]

\* A test that lets the buffer grow one request beyond max_batch_size.
WorkerFullOffByOne(items, max_batch_size) == Len(items) > max_batch_size

\* self.items.len() >= self.max_batch_size
WorkerFull(items, max_batch_size) == Len(items) >= max_batch_size

\* self.items.len() > 0
HasItems(items) == Len(items) > 0

\* An emission that forgets the oldest buffered request.
BatchOfTail(items) == Tail(items)

\* mem::replace(&mut self.items, Vec::new()): the batch the stream emits.
BatchOf(items) == items

\* The stream returns Ready(Some(batch)); for_each's closure spawns the
\* batch job (lines 94-118) and the stream is polled again.
Emitted(w) ==
    [w EXCEPT !.batches = Append(@, BatchOf(w.items)),
              !.jobs = Append(@, "spawned"),
              !.items = <<>>]

\* Lines 184-193.
OnLoadOne(w, r) ==
    LET v == [w EXCEPT !.items = Append(@, r), !.received = Append(@, r)]
    IN  IF WorkerFull(v.items, v.max_batch_size) THEN Emitted(v) ELSE v

\* Lines 194-203: with nothing buffered the stream returns NotReady, the
\* Receiver not having registered the task.
OnLoadRest(w) ==
    IF HasItems(w.items) THEN Emitted(w) ELSE [w EXCEPT !.worker = "asleep"]

\* Lines 207-214: Ready(None).
OnEnd(w) ==
    IF HasItems(w.items) THEN Emitted(w) ELSE [w EXCEPT !.worker = "ended"]

\* Lines 216-224: Err(_).
OnErr(w) ==
    IF Len(w.items) = 0
    THEN [w EXCEPT !.worker = "failed"]
    ELSE Emitted([w EXCEPT !.err = TRUE])

\* Inner::poll, up to its next self.rx.poll(): lines 171-173, then one turn
\* of the loop.
InnerPolled(w) ==
    IF w.err
    THEN [w EXCEPT !.err = FALSE, !.worker = "failed"]
    ELSE IF w.chan # <<>>
    THEN LET msg == Head(w.chan)
             v == [w EXCEPT !.chan = Tail(@)]
         IN  CASE msg.kind = "LoadOne" -> OnLoadOne(v, msg.req)
               [] msg.kind = "LoadRest" -> OnLoadRest(v)
               [] OTHER -> OnEnd([v EXCEPT !.rx_done = TRUE])
    ELSE IF w.rx_done THEN OnEnd(w) ELSE TryPark(w)

\* The number of values a batch function of this behaviour returns for n
\* keys.
ValueCount(out, n) ==
    CASE out = "ok" -> n
      [] out = "short" -> n - 1
      [] out = "long" -> n + 1
      [] OTHER -> 0

WorkerOutcomes == {"ok", "short", "long", "err"}

\* The position of request r in a batch (0: not in it).
Position(batch, r) ==
    IF \E i \in 1 .. Len(batch) : batch[i] = r
    THEN CHOOSE i \in 1 .. Len(batch) : batch[i] = r
    ELSE 0

\* Lines 101-116, the batch job of the n-th batch: Ok(values) completes the
\* replies zipped with the values, and a reply left over is dropped with
\* the closure; Err(e) completes every reply with the error.
Replied(w, n, out) ==
    [r \in 1 .. Len(w.keys) |->
        LET i == Position(w.batches[n], r)
        IN  IF i = 0 THEN w.reply[r]
            ELSE IF out = "err" THEN Custom
            ELSE IF i <= ValueCount(out, Len(w.batches[n]))
            THEN Loaded(n, w.keys[r])
            ELSE LoadCanceled]

\* Loader::load, lines 41-55.  With the worker thread gone the send fails
\* and unwrap() panics.
WorkerLoad(key) ==
    /\ cw.loader
    /\ cw.worker # "exited"
    /\ Len(cw.keys) < MaxWorkerLoads
    /\ Len(cw.chan) < MaxChan
    /\ cw' = Sent([cw EXCEPT !.keys = Append(@, key),
                             !.reply = Append(@, None),
                             !.future = Append(@, "pending"),
                             !.got = Append(@, None)],
                  LoadOne(Len(cw.keys) + 1))
    /\ UNCHANGED restVars

\* LoadFuture::poll, lines 139-150, with dispatch_rest (58-63).
FuturePoll(r) ==
    /\ r \in Requests
    /\ cw.future[r] = "pending"
    /\ IF cw.reply[r] = None
       THEN /\ Len(cw.chan) < MaxChan
            /\ cw' = Sent(cw, LoadRest)
       ELSE cw' = [cw EXCEPT !.future[r] = "resolved",
                             !.got[r] = cw.reply[r]]
    /\ UNCHANGED restVars

\* A LoadFuture is dropped, resolved or not.
DropFuture(r) ==
    /\ r \in Requests
    /\ cw.future[r] # "dropped"
    /\ cw' = Hung([cw EXCEPT !.future[r] = "dropped"])
    /\ UNCHANGED restVars

\* The Loader is dropped.
DropWorkerLoader ==
    /\ cw.loader
    /\ cw' = Hung([cw EXCEPT !.loader = FALSE])
    /\ UNCHANGED restVars

\* The worker, notified or in the middle of a poll, polls the Receiver.
WorkerRecv ==
    /\ cw.worker = "running"
    /\ cw' = InnerPolled(cw)
    /\ UNCHANGED restVars

\* The Receiver's poll returns Err.
WorkerRecvErr ==
    /\ cw.worker = "running"
    /\ ~cw.err
    /\ cw' = OnErr(cw)
    /\ UNCHANGED restVars

\* The future of the n-th batch's batch function completes on the worker's
\* reactor.
BatchDone(n, out) ==
    /\ n \in 1 .. Len(cw.jobs)
    /\ cw.jobs[n] = "spawned"
    /\ cw.worker # "exited"
    /\ cw' = [cw EXCEPT !.jobs[n] = out, !.reply = Replied(cw, n, out)]
    /\ UNCHANGED restVars

\* Lines 120-124: core.run returns (and unwrap() panics on Err), the thread
\* ends; the batch jobs not yet run and the messages not yet received are
\* dropped, and their replies with them.
WorkerExit ==
    /\ cw.worker \in {"ended", "failed"}
    /\ cw' = [cw EXCEPT
                !.worker = "exited",
                !.chan = <<>>,
                !.jobs = [n \in 1 .. Len(cw.jobs) |->
                            IF cw.jobs[n] = "spawned" THEN "dropped"
                            ELSE cw.jobs[n]],
                !.reply = [r \in 1 .. Len(cw.keys) |->
                            IF cw.reply[r] = None THEN LoadCanceled
                            ELSE cw.reply[r]]]
    /\ UNCHANGED restVars

\* Loader::new, with_max_batch_size (which stores any usize it is given) and
\* with_yield_count, over a batch function that lacks the keys `missing`;
\* `ops` is the number of calls the callers may make.
BuiltCached(batch_sizes, yield_counts, missings, ops) ==
    /\ loader \in [max_batch_size : batch_sizes,
                    yield_count : yield_counts]
    /\ state = [completed |-> [k \in Keys |-> None], pending |-> {}]
    /\ stateLock = {}
    /\ loadFnLock = {}
    /\ fut = [c \in Callers |-> Idle]
    /\ last = NoCall
    /\ missing \in missings
    /\ hist = [calls |-> <<>>, omitted |-> {}, primedEver |-> FALSE,
               cleared |-> FALSE, primed |-> [k \in Keys |-> None],
               evictedAt |-> [k \in Keys |-> -1],
               results |-> [k \in Keys |-> {}], left |-> ops]

\* The three loaders; the poll-count Loader is built over Batcher::new(1).
Built(batch_sizes, yield_counts, missings, ops) ==
    /\ BuiltCached(batch_sizes, yield_counts, missings, ops)
    /\ nc = NewPollLoader
    /\ ex = NewUsers(1)
    /\ eg = NewEager(1, {}, 0)
    /\ cw = NewWorker(1)

Init == Built(1 .. MaxBatchSize, 0 .. MaxYieldCount, SUBSET (1 .. NumMissing), MaxOps)

\* The first statement of every call locks the state: a call begins when
\* the lock is free.
CanStart(c) ==
    /\ fut[c].pc = "idle"
    /\ stateLock = {}
    /\ hist.left > 0

Started == [hist EXCEPT !.left = @ - 1]

\* The record of a call that returns: what was called (from the future f),
\* the result of a load, the map of a load_many, the place it returned
\* from and the number of times it yielded.
Returned(f, result, ret, via) ==
    [op |-> f.op, key |-> f.key, req |-> f.req, result |-> result,
     ret |-> ret, via |-> via, afterEvict |-> f.afterEvict, yields |-> f.i]

\* A caller entering a call: its locals before the first statement.
Entered(op, key, req) ==
    [Idle EXCEPT !.op = op, !.key = key, !.req = req, !.keys = req]

\* The history once a call has returned: the results load(k) calls have
\* returned are collected per key for as long as no prime, clear or
\* clear_all has been called.
Noted(h, call) ==
    IF call.op = "load" /\ ~h.primedEver /\ ~h.cleared
    THEN [h EXCEPT !.results[call.key] = @ \cup {call.result}]
    ELSE h

\* Caller c returns from its call: its future is gone, the call is recorded.
Return(c, call, h) ==
    /\ fut' = [fut EXCEPT ![c] = Idle]
    /\ last' = call
    /\ hist' = Noted(h, call)

\* Caller c goes on to its next await point with the future f.
Continue(c, f, h) ==
    /\ fut' = [fut EXCEPT ![c] = f]
    /\ hist' = h
    /\ UNCHANGED last

(* ----------------------------------------------------------------- load *)

\* Loader::load, lines 143-165: lock the state, look the key up, admit it to
\* pending, and drain pending when it is full.
Load(c, key) ==
    /\ CanStart(c)
    /\ LET f == [Entered("load", key, <<>>) EXCEPT
                    !.afterEvict = hist.evictedAt[key]]
           h == [Started EXCEPT !.evictedAt[key] = -1]
           admitted == IF key \notin state.pending
                       THEN state.pending \cup {key}
                       ELSE state.pending
       IN  IF Cached(state.completed, key)
           THEN /\ Return(c, Returned(f, CacheGet(state.completed, key),
                                      NoRet, "hit"), h)
                /\ UNCHANGED <<state, stateLock>>
           ELSE IF key \notin state.pending /\ PendingFull(admitted)
           THEN /\ state' = [state EXCEPT !.pending = Drained(admitted)]
                /\ stateLock' = {c}
                /\ Continue(c, [f EXCEPT !.pc = "lock_fn", !.batch = admitted,
                                         !.site = "load_full"], h)
           ELSE /\ state' = [state EXCEPT !.pending = admitted]
                /\ stateLock' = {}
                /\ Continue(c, [f EXCEPT !.pc = "yield"], h)
    /\ UNCHANGED <<cw, eg, ex, nc, loader, loadFnLock, missing>>

\* let load_fn = self.load_fn.lock().await; load_fn.load(keys.as_ref()):
\* take the batch function's lock and invoke it with the drained keys.
LockLoadFn(c) ==
    /\ fut[c].pc = "lock_fn"
    /\ loadFnLock = {}
    /\ loadFnLock' = {c}
    /\ Continue(c, [fut[c] EXCEPT !.pc = "await_batch"],
                [hist EXCEPT !.calls = Append(@, fut[c].batch)])
    /\ UNCHANGED <<cw, eg, ex, nc, loader, state, stateLock, missing>>

\* yield_now().await inside `while i < self.yield_count`.
Yield(c) ==
    /\ fut[c].pc = "yield"
    /\ YieldAgain(fut[c].i)
    /\ Continue(c, [fut[c] EXCEPT !.i = @ + 1], hist)
    /\ UNCHANGED <<cw, eg, ex, nc, loader, state, stateLock, loadFnLock, missing>>

\* Loader::load, lines 174-193: after the yields, lock the state again, look
\* the key up, flush what is pending, or find nothing and panic.
LoadRelock(c) ==
    /\ fut[c].pc = "yield"
    /\ fut[c].op = "load"
    /\ ~YieldAgain(fut[c].i)
    /\ stateLock = {}
    /\ IF Cached(state.completed, fut[c].key)
       THEN /\ Return(c, Returned(fut[c],
                                  CacheGet(state.completed, fut[c].key),
                                  NoRet, "late"), hist)
            /\ UNCHANGED <<state, stateLock>>
       ELSE IF NeedsFlush(state.pending)
       THEN /\ state' = [state EXCEPT !.pending = Drained(state.pending)]
            /\ stateLock' = {c}
            /\ Continue(c, [fut[c] EXCEPT !.pc = "lock_fn",
                                          !.batch = state.pending,
                                          !.site = "load_flush"], hist)
       ELSE /\ Return(c, Returned(fut[c],
                                  GetOrPanic(state.completed, fut[c].key),
                                  NoRet, "late"), hist)
            /\ UNCHANGED <<state, stateLock>>
    /\ UNCHANGED <<cw, eg, ex, nc, loader, loadFnLock, missing>>

(* ------------------------------------------------------------- try_load *)

\* The fallible single-key load: load, with the failed lookup returned to
\* the caller as an error value.
TryLoad(c, key) ==
    /\ CanStart(c)
    /\ LET f == Entered("try_load", key, <<>>)
           admitted == IF key \notin state.pending
                       THEN state.pending \cup {key}
                       ELSE state.pending
       IN  IF Cached(state.completed, key)
           THEN /\ Return(c, Returned(f, CacheGet(state.completed, key),
                                      NoRet, "hit"), Started)
                /\ UNCHANGED <<state, stateLock>>
           ELSE IF key \notin state.pending /\ PendingFull(admitted)
           THEN /\ state' = [state EXCEPT !.pending = Drained(admitted)]
                /\ stateLock' = {c}
                /\ Continue(c, [f EXCEPT !.pc = "lock_fn", !.batch = admitted,
                                         !.site = "try_full"], Started)
           ELSE /\ state' = [state EXCEPT !.pending = admitted]
                /\ stateLock' = {}
                /\ Continue(c, [f EXCEPT !.pc = "yield"], Started)
    /\ UNCHANGED <<cw, eg, ex, nc, loader, loadFnLock, missing>>

\* The fallible load after its yields.
TryRelock(c) ==
    /\ fut[c].pc = "yield"
    /\ fut[c].op = "try_load"
    /\ ~YieldAgain(fut[c].i)
    /\ stateLock = {}
    /\ IF Cached(state.completed, fut[c].key)
       THEN /\ Return(c, Returned(fut[c],
                                  CacheGet(state.completed, fut[c].key),
                                  NoRet, "late"), hist)
            /\ UNCHANGED <<state, stateLock>>
       ELSE IF NeedsFlush(state.pending)
       THEN /\ state' = [state EXCEPT !.pending = Drained(state.pending)]
            /\ stateLock' = {c}
            /\ Continue(c, [fut[c] EXCEPT !.pc = "lock_fn",
                                          !.batch = state.pending,
                                          !.site = "try_flush"], hist)
       ELSE /\ Return(c, Returned(fut[c],
                                  GetOrErr(state.completed, fut[c].key),
                                  NoRet, "late"), hist)
            /\ UNCHANGED <<state, stateLock>>
    /\ UNCHANGED <<cw, eg, ex, nc, loader, loadFnLock, missing>>

(* ------------------------------------------------------------ load_many *)

\* The `for key in keys.into_iter()` loop of Loader::load_many, lines
\* 200-218, run up to its next await point: the end of the loop, or the
\* dispatch of a full pending set (the key that filled it is still the head
\* of `keys`: it is pushed to `rest` once the batch function has returned).
RECURSIVE ManyLoop(_, _, _, _, _)
ManyLoop(keys, completed, pending, ret, rest) ==
    IF keys = <<>>
    THEN [dispatch |-> FALSE, keys |-> keys, pending |-> pending,
          batch |-> {}, ret |-> ret, rest |-> rest]
    ELSE LET key == Head(keys)
         IN  IF Cached(completed, key)
             THEN ManyLoop(Tail(keys), completed, pending,
                           [ret EXCEPT ![key] = CacheGet(completed, key)], rest)
             ELSE IF key \notin pending
             THEN IF PendingFull(pending \cup {key})
                  THEN [dispatch |-> TRUE, keys |-> keys,
                        pending |-> Drained(pending \cup {key}),
                        batch |-> pending \cup {key}, ret |-> ret, rest |-> rest]
                  ELSE ManyLoop(Tail(keys), completed, pending \cup {key},
                                ret, Append(rest, key))
             ELSE ManyLoop(Tail(keys), completed, pending, ret,
                           Append(rest, key))

\* The caller's future and the shared state after a run of the loop: either
\* it dispatches (the state lock stays held) or the loop is over, the state
\* lock is dropped (line 219) and the yields begin.
AfterLoop(c, f, completed, run, h) ==
    /\ state' = [completed |-> completed, pending |-> run.pending]
    /\ IF run.dispatch
       THEN /\ stateLock' = {c}
            /\ Continue(c, [f EXCEPT !.pc = "lock_fn", !.keys = run.keys,
                                     !.batch = run.batch, !.ret = run.ret,
                                     !.rest = run.rest, !.site = "many_full"], h)
       ELSE /\ stateLock' = {}
            /\ Continue(c, [f EXCEPT !.pc = "yield", !.keys = <<>>,
                                     !.batch = {}, !.ret = run.ret,
                                     !.rest = run.rest, !.site = "none"], h)

\* Loader::load_many, lines 197-219.
LoadMany(c, keys) ==
    /\ CanStart(c)
    /\ AfterLoop(c, Entered("load_many", 0, keys), state.completed,
                 ManyLoop(keys, state.completed, state.pending, NoRet, <<>>),
                 Started)
    /\ UNCHANGED <<cw, eg, ex, nc, loader, loadFnLock, missing>>

\* A collection that stops after the first key of `rest`.
CollectFirst(rest, completed, ret) ==
    IF rest = <<>> THEN ret
    ELSE [ret EXCEPT ![Head(rest)] = GetOrPanic(completed, Head(rest))]

\* for key in rest.into_iter() { ret.insert(key, completed.get(key) or panic) }
RECURSIVE Collect(_, _, _)
Collect(rest, completed, ret) ==
    IF rest = <<>> THEN ret
    ELSE Collect(Tail(rest), completed,
                 [ret EXCEPT ![Head(rest)] = GetOrPanic(completed, Head(rest))])

\* The return of load_many: the map, unless a lookup of lines 240-247
\* panicked.
ManyReturned(f, ret) ==
    Returned(f, IF \E k \in Keys : ret[k] = Panic THEN Panic ELSE None, ret,
             "many")

\* Loader::load_many, lines 228-250: after the yields, return at once when
\* `rest` is empty; otherwise lock the state, flush what is pending and
\* collect the results of `rest`.
ManyRelock(c) ==
    /\ fut[c].pc = "yield"
    /\ fut[c].op = "load_many"
    /\ ~YieldAgain(fut[c].i)
    /\ IF fut[c].rest = <<>>
       THEN /\ Return(c, ManyReturned(fut[c], fut[c].ret), hist)
            /\ UNCHANGED <<state, stateLock>>
       ELSE /\ stateLock = {}
            /\ IF NeedsFlush(state.pending)
               THEN /\ state' = [state EXCEPT !.pending = Drained(state.pending)]
                    /\ stateLock' = {c}
                    /\ Continue(c, [fut[c] EXCEPT !.pc = "lock_fn",
                                                  !.batch = state.pending,
                                                  !.site = "many_flush"], hist)
               ELSE /\ Return(c, ManyReturned(fut[c],
                                     Collect(fut[c].rest, state.completed,
                                             fut[c].ret)), hist)
                    /\ UNCHANGED <<state, stateLock>>
    /\ UNCHANGED <<cw, eg, ex, nc, loader, loadFnLock, missing>>

(* ------------------------------------------- the batch function returns *)

\* load_fn.load(keys).await completes with a map holding the keys the
\* batch function has an entry for; the load_fn guard is dropped, the map is
\* inserted into completed, and the caller goes on from the place that
\* dispatched.
BatchReturn(c) ==
    /\ fut[c].pc = "await_batch"
    /\ LET f == fut[c]
           n == Len(hist.calls)
           completed == InsertAll(state.completed,
                                  BatchFn(n, f.batch \ missing))
           h == [hist EXCEPT !.omitted = @ \cup (f.batch \cap missing)]
       IN  /\ loadFnLock' = {}
           /\ CASE f.site \in {"load_full", "load_flush"} ->
                     /\ state' = [state EXCEPT !.completed = completed]
                     /\ stateLock' = {}
                     /\ Return(c, Returned(f, GetOrPanic(completed, f.key), NoRet,
                                  IF f.site = "load_full" THEN "full" ELSE "flush"),
                               h)
                [] f.site \in {"try_full", "try_flush"} ->
                     /\ state' = [state EXCEPT !.completed = completed]
                     /\ stateLock' = {}
                     /\ Return(c, Returned(f, GetOrErr(completed, f.key), NoRet,
                                  IF f.site = "try_full" THEN "full" ELSE "flush"),
                               h)
                [] f.site = "many_full" ->
                     AfterLoop(c, f, completed,
                               ManyLoop(Tail(f.keys), completed, state.pending,
                                        f.ret, Append(f.rest, Head(f.keys))), h)
                [] f.site = "many_flush" ->
                     /\ state' = [state EXCEPT !.completed = completed]
                     /\ stateLock' = {}
                     /\ Return(c, ManyReturned(f, Collect(f.rest, completed,
                                                          f.ret)), h)
    /\ UNCHANGED <<cw, eg, ex, nc, loader, missing>>

(* --------------------------------------------- prime, clear, clear_all *)

\* The futures after a call changed the cache entries of `keys` in one
\* step: the loads of those keys that are under way are no longer loads
\* "after an eviction".
Touched(keys) ==
    [d \in Callers |->
        IF fut[d].op = "load" /\ fut[d].key \in keys
        THEN [fut[d] EXCEPT !.afterEvict = -1]
        ELSE fut[d]]

NoResults == [k \in Keys |-> {}]

\* Loader::prime: state.completed.insert(key, Ok(val)).
Prime(c, key, val) ==
    /\ CanStart(c)
    /\ state' = [state EXCEPT
                    !.completed = CacheInsert(@, key, Primed(val))]
    /\ hist' = [Started EXCEPT
                    !.primedEver = TRUE,
                    !.results = NoResults,
                    !.primed[key] =
                        IF CacheGet(state.completed, key) = None
                           /\ key \notin state.pending
                        THEN Primed(val) ELSE @,
                    !.evictedAt[key] = -1]
    /\ fut' = Touched({key})
    /\ last' = Returned(Entered("prime", key, <<>>), Primed(val), NoRet, "none")
    /\ UNCHANGED <<cw, eg, ex, nc, loader, stateLock, loadFnLock, missing>>

\* The history's record of an eviction of key k: the number of invocations
\* so far, when the eviction removes an entry while no call is under way.
Evicted(k) ==
    IF Quiescent
    THEN IF CacheGet(state.completed, k) # None
         THEN Len(hist.calls) ELSE hist.evictedAt[k]
    ELSE -1

\* Loader::clear: state.completed.remove(&key).
Clear(c, key) ==
    /\ CanStart(c)
    /\ state' = [state EXCEPT !.completed = CacheRemove(@, key)]
    /\ hist' = [Started EXCEPT
                    !.cleared = TRUE,
                    !.results = NoResults,
                    !.primed[key] = None,
                    !.evictedAt[key] = Evicted(key)]
    /\ fut' = Touched({key})
    /\ last' = Returned(Entered("clear", key, <<>>), None, NoRet, "none")
    /\ UNCHANGED <<cw, eg, ex, nc, loader, stateLock, loadFnLock, missing>>

\* Loader::clear_all: state.completed.clear().
ClearAll(c) ==
    /\ CanStart(c)
    /\ state' = [state EXCEPT !.completed = CacheClear(@)]
    /\ hist' = [Started EXCEPT
                    !.cleared = TRUE,
                    !.results = NoResults,
                    !.primed = [k \in Keys |-> None],
                    !.evictedAt = [k \in Keys |-> Evicted(k)]]
    /\ fut' = Touched(Keys)
    /\ last' = Returned(Entered("clear_all", 0, <<>>), None, NoRet, "none")
    /\ UNCHANGED <<cw, eg, ex, nc, loader, stateLock, loadFnLock, missing>>

(* ----------------------------------------------------------- cancelling *)

\* Caller c drops the future of its load or load_many at the await point it
\* is suspended at (yield_now, load_fn.lock or the batch function): the
\* future's locals, the drained keys among them, and the guards it holds
\* are dropped; what it wrote to the shared state stays.
Cancel(c) ==
    /\ fut[c].pc \in {"yield", "lock_fn", "await_batch"}
    /\ fut' = [fut EXCEPT ![c] = Idle]
    /\ stateLock' = stateLock \ {c}
    /\ loadFnLock' = loadFnLock \ {c}
    /\ UNCHANGED <<cw, eg, ex, nc, loader, state, last, missing, hist>>

(* -------------------------------------------------------- specification *)

\* The steps inside a call: every step but the first of a call.
Step(c) ==
    \/ LockLoadFn(c)
    \/ BatchReturn(c)
    \/ Yield(c)
    \/ LoadRelock(c)
    \/ ManyRelock(c)

Next ==
    \E c \in Acting :
        \/ \E key \in Asked : Load(c, key)
        \/ \E keys \in ManyArgs(MaxManyLen) : LoadMany(c, keys)
        \/ \E key \in Asked, val \in PrimeVals : Prime(c, key, val)
        \/ \E key \in Asked : Clear(c, key)
        \/ ClearAll(c)
        \/ LockLoadFn(c)
        \/ BatchReturn(c)
        \/ Yield(c)
        \/ LoadRelock(c)
        \/ ManyRelock(c)

Spec == Init /\ [][Next]_vars

\* The loader under load and load_many calls only, with longer key lists,
\* over a batch function that has an entry for every key.
InitLoads == Built(1 .. MaxBatchSize, {MaxYieldCount}, {{}}, MaxOpsLoads)

NextLoads ==
    \E c \in Acting :
        \/ \E key \in Asked : Load(c, key)
        \/ \E keys \in ManyArgs(MaxManyLenLoads) : LoadMany(c, keys)
        \/ LockLoadFn(c)
        \/ BatchReturn(c)
        \/ Yield(c)
        \/ LoadRelock(c)
        \/ ManyRelock(c)

LoadSpec == InitLoads /\ [][NextLoads]_vars

\* Callers are scheduled fairly: a call that can take its next step (the
\* executor polls a woken task, the mutex hands the lock over, the batch
\* function terminates) takes it.
Fairness == \A c \in Callers : WF_vars(Step(c))

FairLoadSpec == LoadSpec /\ Fairness

FairSpec == Spec /\ Fairness

\* The loader under load and load_many calls, built with any max_batch_size
\* with_max_batch_size accepts, 0 included.
InitAnySize == Built(0 .. MaxBatchSize, {MaxYieldCount}, {{}}, MaxOpsLoads)

AnySizeSpec == InitAnySize /\ [][NextLoads]_vars

\* The loader under load and load_many calls whose futures may be dropped.
NextCancel ==
    \E c \in Acting :
        \/ \E key \in Asked : Load(c, key)
        \/ \E keys \in ManyArgs(MaxManyLen) : LoadMany(c, keys)
        \/ LockLoadFn(c)
        \/ BatchReturn(c)
        \/ Yield(c)
        \/ LoadRelock(c)
        \/ ManyRelock(c)
        \/ Cancel(c)

CancelSpec == InitLoads /\ [][NextCancel]_vars

\* The loader of test_load, with_max_batch_size(4), under load and load_many
\* calls: three keys can be pending together without filling a batch.
InitWide == Built({WideBatchSize}, 0 .. MaxYieldCount, {{}}, MaxOpsLoads)

WideSpec == InitWide /\ [][NextLoads]_vars

\* The poll-count Loader alone.
InitPoll == Built({1}, {0}, {{}}, 0)

NextPoll ==
    \/ \E key \in 1 .. NumPollKeys : PollLoad(key)
    \/ \E h \in 1 .. MaxHandles, ready \in BOOLEAN : Poll(h, ready)

PollSpec == InitPoll /\ [][NextPoll]_vars

\* The poll-count Loader over a batch function whose invocations end in
\* any of the Outcomes.
NextOutcome ==
    \/ \E key \in 1 .. NumPollKeys : PollLoad(key)
    \/ \E h \in 1 .. MaxHandles, ready \in BOOLEAN, out \in Outcomes :
          PollOut(h, ready, out)

OutcomeSpec == InitPoll /\ [][NextOutcome]_vars

\* The poll-count Loader and the tasks that await its handles: every handle
\* is awaited on a task of its own (pass_to_thread), awaited later or never
\* (test_batch_call_seq awaits its handles one after another), or dropped.
InitUsers ==
    /\ BuiltCached({1}, {0}, {{}}, 0)
    /\ nc = NewPollLoader
    /\ ex \in {NewUsers(m) : m \in 1 .. MaxPollBatchSize}
    /\ eg = NewEager(1, {}, 0)
    /\ cw = NewWorker(1)

NextUsers ==
    \/ \E key \in 1 .. NumPollKeys : UserLoad(key)
    \/ \E h \in 1 .. MaxUserHandles : Await(h)
    \/ \E h \in 1 .. MaxUserHandles : DropHandle(h)
    \/ \E h \in 1 .. MaxUserHandles : TaskPoll(h)
    \/ Complete
    \/ DropLoader

UserSpec == InitUsers /\ [][NextUsers]_vars

\* The executor polls every scheduled task, and the batch function
\* terminates.
UserFairness ==
    /\ \A h \in 1 .. MaxUserHandles : WF_vars(TaskPoll(h))
    /\ WF_vars(Complete)

FairUserSpec == UserSpec /\ UserFairness

\* The poll-count Loader whose handles are joined on one task, the loader
\* being dropped at any moment (drop_loader).
NextKept ==
    \/ \E key \in 1 .. NumPollKeys : JoinLoad(key)
    \/ DropLoader
    \/ JoinStart
    \/ JoinWake
    \/ JoinPoll
    \/ Complete

KeptSpec == InitUsers /\ [][NextKept]_vars

KeptFairness ==
    /\ WF_vars(JoinWake)
    /\ WF_vars(JoinPoll)
    /\ WF_vars(Complete)

FairKeptSpec == KeptSpec /\ KeptFairness

\* The eager cached Loader, shared by concurrent callers of load and
\* load_many.
InitEager ==
    /\ BuiltCached({1}, {0}, {{}}, 0)
    /\ nc = NewPollLoader
    /\ ex = NewUsers(1)
    /\ eg \in {NewEager(m, lacks, MaxEagerOps) :
                 m \in 1 .. MaxEagerBatchSize,
                 lacks \in SUBSET (1 .. NumEagerMissing)}
    /\ cw = NewWorker(1)

NextEager ==
    \E c \in EagerCallers :
        \/ \E key \in EagerKeys : EagerLoad(c, key)
        \/ \E keys \in EagerManyArgs(MaxEagerManyLen) : EagerLoadMany(c, keys)
        \/ EagerStep(c)

EagerSpec == InitEager /\ [][NextEager]_vars

\* The channel-worker Loader with its callers, who load, poll and drop
\* at will, and a Receiver that may err; the batch function returns a value
\* per key.
InitWorker ==
    /\ BuiltCached({1}, {0}, {{}}, 0)
    /\ nc = NewPollLoader
    /\ ex = NewUsers(1)
    /\ eg = NewEager(1, {}, 0)
    /\ cw \in {NewWorker(m) : m \in 1 .. MaxWorkerBatchSize}

NextWorker ==
    \/ \E key \in WorkerKeys : WorkerLoad(key)
    \/ \E r \in 1 .. MaxWorkerLoads : FuturePoll(r) \/ DropFuture(r)
    \/ DropWorkerLoader
    \/ WorkerRecv
    \/ WorkerRecvErr
    \/ \E n \in 1 .. MaxWorkerLoads : BatchDone(n, "ok")
    \/ WorkerExit

WorkerSpec == InitWorker /\ [][NextWorker]_vars

\* The channel-worker Loader over batch functions that return value lists
\* of any length, or an error.
NextReplied ==
    \/ \E key \in WorkerKeys : WorkerLoad(key)
    \/ \E r \in 1 .. MaxWorkerLoads : FuturePoll(r)
    \/ WorkerRecv
    \/ \E n \in 1 .. MaxWorkerLoads :
          \E out \in WorkerOutcomes : BatchDone(n, out)

RepliedSpec == InitWorker /\ [][NextReplied]_vars

\* The channel-worker Loader with callers that keep their Loader and their
\* LoadFutures, a batch function that returns a value per key, and a
\* Receiver that does not err.
NextServed ==
    \/ \E key \in WorkerKeys : WorkerLoad(key)
    \/ \E r \in 1 .. MaxWorkerLoads : FuturePoll(r)
    \/ WorkerRecv
    \/ \E n \in 1 .. MaxWorkerLoads : BatchDone(n, "ok")

ServedSpec == InitWorker /\ [][NextServed]_vars

\* The worker thread runs when notified, the reactor runs the batch jobs,
\* and the callers go on polling their LoadFutures.
ServedFairness ==
    /\ WF_vars(WorkerRecv)
    /\ \A n \in 1 .. MaxWorkerLoads : WF_vars(BatchDone(n, "ok"))
    /\ \A r \in 1 .. MaxWorkerLoads : SF_vars(FuturePoll(r))

FairServedSpec == ServedSpec /\ ServedFairness

\* Loads joined on one task (future::try_join): the futures are polled in
\* order, each poll runs its load up to its next await point, and a future
\* suspended in yield_now() is polled again only after every joined future
\* has been polled once.
JoinedLoad(c, key) ==
    /\ hist.left = JoinedLoads - c + 1
    /\ Load(c, key)

JoinedYield(c) ==
    /\ hist.left = 0
    /\ Yield(c)

InitJoin == Built({JoinedBatchSize}, 0 .. MaxYieldCount, {{}}, JoinedLoads)

NextJoin ==
    \E c \in 1 .. JoinedLoads :
        \/ \E key \in 1 .. JoinedLoads : JoinedLoad(c, key)
        \/ LockLoadFn(c)
        \/ BatchReturn(c)
        \/ JoinedYield(c)
        \/ LoadRelock(c)

JoinSpec == InitJoin /\ [][NextJoin]_vars

\* The loader under the panicking and the fallible single-key load, over a
\* batch function that may lack keys.
InitTry == Built(1 .. MaxBatchSize, {MaxYieldCount}, SUBSET (1 .. NumMissing), MaxOps)

NextTry ==
    \E c \in Acting :
        \/ \E key \in Asked : Load(c, key)
        \/ \E key \in Asked : TryLoad(c, key)
        \/ LockLoadFn(c)
        \/ BatchReturn(c)
        \/ Yield(c)
        \/ LoadRelock(c)
        \/ TryRelock(c)

TrySpec == InitTry /\ [][NextTry]_vars

(* ------------------------------------------------------------ the claims *)

\* The invocations of the batch function that received key k.
Given(k) == {n \in 1 .. Len(hist.calls) : k \in hist.calls[n]}

\* No prime, clear or clear_all has been called so far.
Untouched == ~hist.primedEver /\ ~hist.cleared

\* C1: every invocation of the batch function receives at least one and at
\* most max_batch_size keys, whatever load and load_many calls the callers
\* interleave.
C1_BatchSizeBounded ==
    \A n \in 1 .. Len(hist.calls) :
        /\ Cardinality(hist.calls[n]) >= 1
        /\ Cardinality(hist.calls[n]) <= loader.max_batch_size

\* A load_many of more keys than max_batch_size has produced a full batch
\* and a partial one.
C1_Witness ==
    /\ loader.max_batch_size = 2
    /\ last.op = "load_many"
    /\ Len(last.req) > loader.max_batch_size
    /\ \E n, m \in 1 .. Len(hist.calls) :
          /\ Cardinality(hist.calls[n]) = loader.max_batch_size
          /\ Cardinality(hist.calls[m]) = 1

\* C2: as long as no prime, clear or clear_all is called and the batch
\* function has returned an entry for every key it was given, no key has
\* been passed to the batch function more than once.
C2_KeyLoadedOnce ==
    (Untouched /\ hist.omitted = {}) =>
        \A k \in Keys : Cardinality(Given(k)) <= 1

\* A load of a key has returned from the cache after the one invocation
\* that received the key.
C2_Witness ==
    /\ Untouched
    /\ hist.omitted = {}
    /\ last.op = "load"
    /\ last.via = "hit"
    /\ Cardinality(Given(last.key)) = 1

\* C3: with no prime or clear, all load(k) calls return the same result,
\* the one the single invocation that received k produced for k.
C3_SameResult ==
    Untouched =>
        \A k \in Keys \ hist.omitted :
            \A r \in hist.results[k] :
                /\ hist.results[k] = {r}
                /\ \E n \in Given(k) : Given(k) = {n} /\ r = Loaded(n, k)

\* Two loads of one key were under way together: one has returned the
\* invocation's result after waiting through its yields, the other is still
\* in its yields.
C3_Witness ==
    /\ Untouched
    /\ last.op = "load"
    /\ last.via = "late"
    /\ last.result.kind = "ok"
    /\ \E d \in Callers :
          /\ fut[d].op = "load"
          /\ fut[d].pc = "yield"
          /\ fut[d].key = last.key

\* C4: whenever no caller holds the state lock, pending holds fewer than
\* max_batch_size keys: the call whose key fills pending drains it before
\* it lets the lock go.
C4_PendingBelowMax ==
    stateLock = {} => Cardinality(state.pending) < loader.max_batch_size

\* A call has just admitted the key that filled pending: it holds the lock,
\* pending is drained and the full batch is its own.
C4_Witness ==
    \E c \in Callers :
        /\ fut[c].pc = "lock_fn"
        /\ fut[c].site \in {"load_full", "many_full"}
        /\ stateLock = {c}
        /\ loader.max_batch_size = 2
        /\ Cardinality(fut[c].batch) = loader.max_batch_size
        /\ state.pending = {}

\* C5: under fair scheduling, with a batch function that returns every key
\* and no clear, every load call that has begun returns, its result is a
\* loaded value and never a panic, and a load that returns after waiting
\* has yielded yield_count times.
C5_LoadReturns ==
    /\ \A c \in Callers :
          (fut[c].op = "load" /\ fut[c].pc # "idle") ~> (fut[c].pc = "idle")
    /\ [](last.op = "load" =>
            /\ last.result.kind = "ok"
            /\ last.via \in {"late", "flush"} =>
                  last.yields = loader.yield_count)

\* A single load has returned from a flush of a batch smaller than
\* max_batch_size, after yield_count yields, and no other key was ever
\* requested.
C5_Witness ==
    /\ loader.max_batch_size = 2
    /\ loader.yield_count = MaxYieldCount
    /\ last.op = "load"
    /\ last.via = "flush"
    /\ last.yields = loader.yield_count
    /\ last.result = Loaded(1, last.key)
    /\ hist.calls = <<{last.key}>>
    /\ hist.left = MaxOpsLoads - 1

\* C6: while a caller awaits the batch function, the state lock is free, so
\* that an idle caller can begin a call and admit its key.
C6_LockFreeDuringFetch ==
    \A c \in Callers :
        fut[c].pc = "await_batch" =>
            /\ stateLock = {}
            /\ \A d \in Callers \ {c} :
                  (fut[d].pc = "idle" /\ hist.left > 0) => CanStart(d)

\* C7: a prime(key, val) of a key that has a resolved cached result leaves
\* the stored results unchanged.
C7_PrimeKeepsResolved ==
    [][\A c \in Callers, key \in Keys, val \in PrimeVals :
          (Prime(c, key, val) /\ Cached(state.completed, key))
              => state'.completed = state.completed]_vars

\* C8: a prime(key, val) of a key that is pending (admitted, not yet
\* dispatched) writes no cache entry: the entry of the key is written only
\* by the dispatch.
C8_PrimeKeepsInFlight ==
    [][\A c \in Callers, key \in Keys, val \in PrimeVals :
          (Prime(c, key, val) /\ key \in state.pending)
              => CacheGet(state'.completed, key)
                    = CacheGet(state.completed, key)]_vars

\* C9: once prime(k, v) has been called with neither a cached entry nor a
\* pending request for k, and until a clear of k, every load(k) that
\* returns has returned v.
C9_PrimedValueReturned ==
    (last.op = "load" /\ hist.primed[last.key] # None)
        => last.result = hist.primed[last.key]

\* C10: the next load(k) after k's cached entry was evicted, by clear(k) or
\* clear_all() with no call under way, returns the result of an invocation
\* of the batch function made after the eviction that received k.
C10_ReloadAfterEvict ==
    (last.op = "load" /\ last.afterEvict >= 0 /\ last.key \notin missing)
        => \E n \in Given(last.key) :
              /\ n > last.afterEvict
              /\ last.result = Loaded(n, last.key)

\* A key was loaded, evicted, and loaded again by a second invocation.
C10_Witness ==
    /\ last.op = "load"
    /\ last.afterEvict >= 1
    /\ last.key \in hist.calls[last.afterEvict]
    /\ last.result.kind = "ok"
    /\ last.result.seq > last.afterEvict
    /\ Cardinality(Given(last.key)) = 2

\* C11: as long as no prime is called, a load(k) of a key k the batch
\* function's map omits never returns a value: under fair scheduling it
\* returns, and what it returns is the panic of the failed lookup.
C11_OmittedKeyPanics ==
    /\ \A c \in Callers :
          (fut[c].op = "load" /\ fut[c].pc # "idle" /\ fut[c].key \in missing)
              ~> (fut[c].pc = "idle")
    /\ []((last.op = "load" /\ last.key \in missing /\ ~hist.primedEver)
             => last.result = Panic)

\* A load of a key has panicked after an invocation of the batch function
\* received the key and returned a map without it.
C11_Witness ==
    /\ last.op = "load"
    /\ last.key \in hist.omitted
    /\ last.key \in hist.calls[Len(hist.calls)]
    /\ last.via = "flush"
    /\ last.result = Panic
    /\ ~hist.primedEver

\* C12: the fallible load try_load(k) never panics: when the batch
\* function's result omits k it returns the error value, and otherwise the
\* value loaded for k.
C12_TryLoadReturnsError ==
    last.op = "try_load" =>
        /\ last.result # Panic
        /\ last.key \in missing => last.result = NotFound
        /\ last.key \notin missing =>
              \E n \in Given(last.key) : last.result = Loaded(n, last.key)

\* A try_load of a key has returned the error value after an invocation of
\* the batch function received the key and returned a map without it, the
\* second invocation the key was given to.
C12_Witness ==
    /\ last.op = "try_load"
    /\ last.key \in hist.omitted
    /\ last.result = NotFound
    /\ Cardinality(Given(last.key)) = 2

\* C13: as long as no prime or clear is called, a load of a key the batch
\* function has an entry for returns the result of an invocation that
\* received the key, also when that invocation's map omitted another key of the batch:
\* only the loads of omitted keys fail.
C13_OnlyOmittedKeyFails ==
    (last.op = "load" /\ Untouched) =>
        IF last.key \in missing
        THEN last.result = Panic
        ELSE \E n \in Given(last.key) : last.result = Loaded(n, last.key)

\* A load has returned its key's result after waiting, from an invocation
\* another caller dispatched and whose map omitted another key of the
\* batch.
C13_Witness ==
    /\ last.op = "load"
    /\ last.via = "late"
    /\ Untouched
    /\ last.key \notin missing
    /\ \E n \in Given(last.key) :
          /\ last.result = Loaded(n, last.key)
          /\ hist.calls[n] \cap missing # {}

\* C14: no loader with max_batch_size = 0 is usable: a call of load or
\* load_many only ever returns on a loader whose max_batch_size is positive.
C14_ZeroBatchSizeRejected ==
    last.op \in {"load", "load_many"} => loader.max_batch_size > 0

\* The joined loads have all returned and asked for the keys 1 .. 4 between
\* them: the batch function was invoked exactly twice, with two keys each.
TwoBatchesOfTwo ==
    (/\ Quiescent
     /\ hist.left = 0
     /\ \A k \in 1 .. JoinedLoads : Cached(state.completed, k))
        => /\ Len(hist.calls) = 2
           /\ \A n \in 1 .. Len(hist.calls) : Cardinality(hist.calls[n]) = 2

\* The second of the joined loads has returned, the first waits, and their
\* keys differ: one invocation received both keys.
OneBatchOfTwo ==
    (/\ hist.left = JoinedLoads - 2
     /\ fut[2].pc = "idle"
     /\ fut[1].pc = "yield"
     /\ last.key # fut[1].key)
        => hist.calls = <<{fut[1].key, last.key}>>

\* Every joined load that has returned has returned the result an
\* invocation that received its key produced for it.
OwnResult ==
    last.op = "load" =>
        \E n \in Given(last.key) : last.result = Loaded(n, last.key)

\* C15 as stated: with max_batch_size = 2, four joined loads of the keys 1,
\* 2, 3, 4 cause exactly two invocations of two keys each (and two joined
\* loads of two keys one invocation of both), each load returning its own
\* key's result.
C15_JoinedLoadsBatched ==
    TwoBatchesOfTwo /\ OneBatchOfTwo /\ OwnResult

\* C15 amended: the same, on a loader whose yield_count is at least 1.
C15_JoinedLoadsBatchedWhenYielding ==
    loader.yield_count >= 1 => (TwoBatchesOfTwo /\ OneBatchOfTwo /\ OwnResult)

\* Four joined loads of four keys have returned on a loader that yields,
\* the last of them from the cache after waiting.
C15_Witness ==
    /\ loader.yield_count >= 1
    /\ Quiescent
    /\ hist.left = 0
    /\ \A k \in 1 .. JoinedLoads : Cached(state.completed, k)
    /\ Len(hist.calls) = 2
    /\ last.op = "load"
    /\ last.via = "late"

Range(seq) == {seq[i] : i \in 1 .. Len(seq)}

\* Caller c's load and caller d's load_many have both been admitted and
\* wait in their yields, neither has flushed, all their keys are pending and
\* the pending keys are fewer than max_batch_size.
AdmittedTogether(c, d) ==
    /\ fut[c].op = "load" /\ fut[c].pc = "yield"
    /\ fut[d].op = "load_many" /\ fut[d].pc = "yield"
    /\ Range(fut[d].rest) = Range(fut[d].req)
    /\ ({fut[c].key} \cup Range(fut[d].req)) \subseteq state.pending
    /\ Cardinality(state.pending) < loader.max_batch_size

\* C16: when a load and a load_many are admitted together, none of their
\* keys has been given to the batch function yet, the next dispatch takes
\* all of their keys in one batch, and no key is ever given twice: one
\* invocation receives them all.
C16_LoadManyJoinsBatch ==
    /\ [](\A c, d \in Callers :
            AdmittedTogether(c, d) =>
                \A k \in {fut[c].key} \cup Range(fut[d].req) : Given(k) = {})
    /\ [][\A c, d, e \in Callers :
            (/\ AdmittedTogether(c, d)
             /\ fut[e].pc # "lock_fn"
             /\ fut'[e].pc = "lock_fn")
                => ({fut[c].key} \cup Range(fut[d].req)) \subseteq fut'[e].batch]_vars
    /\ [](\A k \in Keys : Cardinality(Given(k)) <= 1)

\* A load(a) has returned from the flush of the one batch {a, b, c} while
\* the load_many([b, c]) admitted with it still waits.
C16_Witness ==
    /\ last.op = "load"
    /\ last.via = "flush"
    /\ \E d \in Callers :
          /\ fut[d].op = "load_many"
          /\ fut[d].pc = "yield"
          /\ Len(fut[d].req) = 2
          /\ Cardinality(Range(fut[d].req) \cup {last.key}) = 3
          /\ hist.calls = <<Range(fut[d].req) \cup {last.key}>>

\* C17: with a batch function that returns every key and no prime or clear,
\* the map load_many(keys) returns has exactly the requested keys, each with
\* the result of the one invocation that received it, also for key lists
\* longer than max_batch_size and lists with duplicates.
C17_LoadManyMap ==
    last.op = "load_many" =>
        /\ last.result # Panic
        /\ \A k \in Keys :
              IF k \in Range(last.req)
              THEN \E n \in Given(k) :
                      Given(k) = {n} /\ last.ret[k] = Loaded(n, k)
              ELSE last.ret[k] = None

\* A load_many of three keys, one of them twice in the list, has returned
\* on a loader whose max_batch_size is 2, its keys served by two
\* invocations.
C17_Witness ==
    /\ last.op = "load_many"
    /\ loader.max_batch_size = 2
    /\ Len(last.req) = 3
    /\ Cardinality(Range(last.req)) = 2
    /\ \E k, j \in Range(last.req) : Given(k) # Given(j)
    /\ \A k \in Range(last.req) : last.ret[k].kind = "ok"

\* C18: whatever futures other callers drop, and wherever they drop them, a
\* load that runs to its end over a batch function that returns every key
\* returns its key's result and does not panic.
C18_CancelHarmless ==
    last.op = "load" =>
        \E n \in Given(last.key) : last.result = Loaded(n, last.key)

\* C19: a handle of the poll-count Loader that resolves to Ok(v) receives
\* the value the batch function returned for the handle's own key.
C19_OwnKeyValue ==
    nc.last.res.kind = "ok" =>
        \E n \in 1 .. Len(nc.calls) : nc.last.res = Loaded(n, nc.last.key)

Awaiting(h) ==
    /\ h \in Handles
    /\ ex.held[h] = "awaited"
    /\ nc.queue[h].some

\* Handle h has resolved, or its owner gave it up.
Settled(h) ==
    /\ h \in Handles
    /\ ~nc.queue[h].some \/ ex.held[h] = "dropped"

\* C21: in the poll-count Loader, a handle whose task is waiting when a
\* result is stored for it is woken afterwards: it eventually resolves
\* (unless its owner drops it).
C21_StoredResultPickedUp ==
    \A h \in 1 .. MaxUserHandles :
        (Awaiting(h) /\ HasResult(nc, h)) ~> Settled(h)

\* C22: in the poll-count Loader, a handle that is awaited eventually
\* resolves (unless its owner drops it), whatever happens to the other
\* handles.
C22_AwaitedHandleResolves ==
    \A h \in 1 .. MaxUserHandles : Awaiting(h) ~> Settled(h)

\* The handles created for key k.
Askers(k) == {h \in 1 .. Len(nc.asked) : nc.asked[h] = k}

\* C23: in the poll-count Loader, the key of a handle that was dropped
\* before a dispatch, and that no other handle asked for, is not among the
\* keys of that dispatch.
C23_DroppedKeyNotDispatched ==
    [][Len(nc'.calls) > Len(nc.calls) =>
          \A i \in 1 .. Len(nc'.members[Len(nc'.members)]) :
             LET h == nc'.members[Len(nc'.members)][i]
             IN  ex.held[h] = "dropped" => Askers(nc.asked[h]) # {h}]_vars

\* The invocations that have completed and that handle h was a member of.
Served(h) ==
    {n \in 1 .. Len(nc.outs) :
        \E i \in 1 .. Len(nc.members[n]) : nc.members[n][i] = h}

\* C24: in the poll-count Loader, a handle that was a member of an
\* invocation that ended in Err resolves to Err(LoadError::BatchFn).
C24_FailedBatchFailsMembers ==
    (nc.last.index # 0 /\ \E n \in Served(nc.last.index) : nc.outs[n] = "err")
        => nc.last.res = BatchFnErr

\* C25: in the poll-count Loader, a handle that was a member of an
\* invocation that returned fewer values than it was given keys resolves to
\* UnequalKeyValueSize with the number of keys sent and of values returned.
C25_SizeMismatchFailsMembers ==
    \A n \in Served(nc.last.index) :
        nc.outs[n] = "short" =>
            nc.last.res = Unequal(Len(nc.calls[n]), Len(nc.calls[n]) - 1)

\* The keys of the invocations that ended in Err before handle h was
\* created.
FailedBefore(h) ==
    UNION {Range(nc.calls[n]) :
             n \in {m \in 1 .. nc.born[h] : nc.outs[m] = "err"}}

\* C26: in the poll-count Loader, a handle created after an invocation
\* failed, for a key that was not in the failed invocation, and whose result
\* was stored at the completion of an invocation that it was a member of and
\* that ended in Ok, resolves to the value that invocation produced for its
\* key; and a completed invocation's future is not kept.
C26_LaterBatchUnaffected ==
    /\ [](LET h == nc.last.index
          IN  (/\ h # 0
               /\ FailedBefore(h) # {}
               /\ nc.asked[h] \notin FailedBefore(h)
               /\ nc.last.by \in Served(h)
               /\ nc.outs[nc.last.by] = "ok")
              => nc.last.res = Loaded(nc.last.by, nc.asked[h]))
    /\ [][Len(nc'.outs) > Len(nc.outs) => nc'.current_load = NoLoad]_vars

\* C27: in the poll-count Loader, no key list given to the batch function
\* holds the same key twice.
C27_KeysDistinct ==
    \A n \in 1 .. Len(nc.calls) :
        \A i, j \in 1 .. Len(nc.calls[n]) :
            nc.calls[n][i] = nc.calls[n][j] => i = j

\* C28: in the poll-count Loader, no key list given to the batch function is
\* longer than max_batch_size.
C28_BatchSizeBounded ==
    \A n \in 1 .. Len(nc.calls) : Len(nc.calls[n]) <= ex.max_batch_size

\* Handle h has returned its result.
HasResolved(h) == h \in Handles /\ ~nc.queue[h].some

\* C29: the handles of a poll-count Loader, joined on one task, resolve to
\* the batch function's values for their keys after the Loader value has
\* been dropped.
C29_HandlesOutliveLoader ==
    /\ []((ex.loaders = 0 /\ nc.last.index # 0) =>
            nc.last.res = Loaded(nc.last.by, nc.asked[nc.last.index]))
    /\ \A h \in 1 .. MaxUserHandles :
          (ex.loaders = 0 /\ Awaiting(h)) ~> HasResolved(h)

\* Two handles were created, the loader was dropped before either was
\* polled, and both have resolved.
C29_Witness ==
    /\ ex.loaders = 0
    /\ Len(nc.queue) = 2
    /\ \A h \in Handles : ~nc.queue[h].some /\ nc.born[h] = 0
    /\ Len(nc.calls) = 1
    /\ nc.last.res = Loaded(1, nc.asked[nc.last.index])

\* C30: every invocation of the eager cached Loader's batch function is
\* given at least one and at most max_batch_size keys.
C30_EagerBatchSizeBounded ==
    \A n \in 1 .. Len(eg.calls) :
        /\ Cardinality(eg.calls[n]) >= 1
        /\ Cardinality(eg.calls[n]) <= eg.max_batch_size


\* The keys that have a result in a map returned by load_many.
EagerDom(ret) == {k \in EagerKeys : ret[k] # None}

\* C31: over a batch function that returns every key it is given, the map
\* the eager cached Loader's load_many returns has exactly the requested
\* keys, each with a value loaded for that key.
C31_EagerLoadManyComplete ==
    (eg.missing = {} /\ eg.last.op = "load_many") =>
        /\ EagerDom(eg.last.ret) = Range(eg.last.req)
        /\ \A k \in Range(eg.last.req) :
              \E n \in 1 .. Len(eg.calls) :
                  k \in eg.calls[n] /\ eg.last.ret[k] = Loaded(n, k)

\* A load_many has returned a key that another caller's invocation loaded
\* together with a key the load_many did not ask for.
C31_Witness ==
    /\ eg.missing = {}
    /\ eg.last.op = "load_many"
    /\ EagerDom(eg.last.ret) = Range(eg.last.req)
    /\ \E k \in Range(eg.last.req) :
          \E n \in 1 .. Len(eg.calls) :
              /\ eg.last.ret[k] = Loaded(n, k)
              /\ ~(eg.calls[n] \subseteq Range(eg.last.req))


\* C32: in the channel-worker Loader, when a batch function returns a value
\* list whose length differs from the number of keys of the batch, every
\* member of the batch is replied a size-mismatch error: none gets a
\* positional value, none a cancelled reply.
C32_WorkerSizeMismatch ==
    \A n \in 1 .. Len(cw.jobs) :
        cw.jobs[n] \in {"short", "long"} =>
            \A i \in 1 .. Len(cw.batches[n]) :
                cw.reply[cw.batches[n][i]] =
                    Unequal(Len(cw.batches[n]),
                            ValueCount(cw.jobs[n], Len(cw.batches[n])))


\* C33: in the cached Loader, a load(k) that was admitted and went through
\* its yield phase returns a result for k and does not panic with a missing
\* key, whatever clear(k) and clear_all() calls and whatever dispatches of
\* other callers were interleaved with it (k being a key the batch function
\* has an entry for).
C33_EvictionDuringYieldHarmless ==
    (last.op = "load" /\ last.via \in {"late", "flush"} /\ last.yields >= 1
                      /\ last.key \notin missing)
        => last.result.kind = "ok"


\* C34: in the cached Loader over a batch function that returns exactly the
\* keys it is given, whenever no caller holds the state lock no key is both
\* in the pending set and in the completed cache.
C34_PendingNotCompleted ==
    (missing = {} /\ stateLock = {}) =>
        \A k \in state.pending : ~Cached(state.completed, k)


\* C35: in the poll-count Loader, a handle resolves to UnequalKeyValueSize
\* only if some invocation of the batch function returned a value list
\* whose length differs from the key list that invocation was given.
C35_MismatchOnlyFromBatchFn ==
    nc.last.res.kind = "unequal" =>
        \E n \in 1 .. Len(nc.outs) : nc.outs[n] = "short"


\* The lock a caller of the eager cached Loader is waiting to acquire at
\* its await point.
EagerAwaits(f) ==
    CASE f.pc \in {"check", "admit", "insert", "flush"} -> "completed"
      [] f.pc \in {"lock_pending", "relock_pending"} -> "pending"
      [] f.pc = "lock_fn" -> "load_fn"
      [] OTHER -> "none"

\* The callers holding the lock that caller c is waiting for.
EagerBlockedBy(c) ==
    CASE EagerAwaits(eg.fut[c]) = "completed" -> eg.completedLock
      [] EagerAwaits(eg.fut[c]) = "pending" -> eg.pendingLock
      [] EagerAwaits(eg.fut[c]) = "load_fn" -> eg.loadFnLock
      [] OTHER -> {}

\* C36: the eager cached Loader never deadlocks: in no reachable state is
\* there a set of callers each of which waits for a lock held by a caller
\* of the set.
C36_EagerNoDeadlock ==
    \A S \in SUBSET EagerCallers :
        S # {} =>
            \E c \in S : EagerBlockedBy(c) = {} \/ ~(EagerBlockedBy(c) \subseteq S)

\* A caller waits for the completed lock while the caller that holds it,
\* with the pending and load_fn locks, awaits the batch function.
C36_Witness ==
    \E c, d \in EagerCallers :
        /\ c # d
        /\ EagerAwaits(eg.fut[c]) = "completed"
        /\ EagerBlockedBy(c) = {d}
        /\ eg.pendingLock = {d}
        /\ eg.loadFnLock = {d}
        /\ eg.fut[d].pc = "await_batch"


\* C37: every batch the worker's request stream emits holds at least one
\* and at most max_batch_size requests, and the buffer never holds
\* max_batch_size requests once a step of Inner::poll is over: the batch is
\* emitted in the step in which the buffer fills.
C37_WorkerBatchBounded ==
    /\ \A n \in 1 .. Len(cw.batches) :
          /\ Len(cw.batches[n]) >= 1
          /\ Len(cw.batches[n]) <= cw.max_batch_size
    /\ Len(cw.items) < cw.max_batch_size

\* The stream has emitted a full batch of two requests and, the Receiver
\* having erred with one request buffered, a batch of that one request.
C37_Witness ==
    /\ cw.max_batch_size = 2
    /\ Len(cw.batches) = 2
    /\ Len(cw.batches[1]) = 2
    /\ Len(cw.batches[2]) = 1
    /\ cw.err


\* The requests of a sequence of batches, in order.
RECURSIVE Flattened(_)
Flattened(batches) ==
    IF batches = <<>> THEN <<>>
    ELSE Head(batches) \o Flattened(Tail(batches))

\* C38: every LoadOne request the worker has received is in exactly one
\* emitted batch or still in the buffer, the requests of the batches and
\* of the buffer being in the order they were received in; and no request
\* is left in the buffer when the stream ends or fails.
C38_WorkerRequestsKept ==
    /\ Flattened(cw.batches) \o cw.items = cw.received
    /\ \A i, j \in 1 .. Len(cw.received) :
          i # j => cw.received[i] # cw.received[j]
    /\ cw.worker \in {"ended", "failed", "exited"} => cw.items = <<>>

\* The stream has ended after the channel closed with a request buffered:
\* three requests were received and emitted in two batches.
C38_Witness ==
    /\ cw.max_batch_size = 2
    /\ cw.worker = "ended"
    /\ cw.received = <<1, 2, 3>>
    /\ cw.batches = <<(<<1, 2>>), (<<3>>)>>
    /\ cw.jobs[2] = "spawned"


\* C39: in the channel-worker Loader, with a worker thread that runs when
\* notified, a batch function that answers and callers that go on polling,
\* every request is eventually dispatched and its LoadFuture resolves.
C39_PolledFutureResolves ==
    \A r \in 1 .. MaxWorkerLoads :
        (Len(cw.keys) >= r) ~> (Len(cw.keys) >= r /\ cw.future[r] = "resolved")

====
